---- MODULE Spec2Model ----
(***************************************************************************)
(* A model of packages/next/server/dev/hot-reloader.ts: the request gate   *)
(* (HotReloader.run), the per-target compiler hooks installed by           *)
(* HotReloader.start, and the error lookup getCompilationErrors.           *)
(*                                                                         *)
(* Conventions: JavaScript null/undefined is the string NULL; a chunk hash *)
(* is an opaque string, compared for equality only, and NoHash stands for  *)
(* "no such chunk / no recorded hash"; an error object is named by a       *)
(* string, its fields are the tables ErrorCode and ErrorModule.            *)
(***************************************************************************)
EXTENDS Integers, Sequences, FiniteSets, TLC

\* ------------------------------------------------------------------ bounds
MaxErrors == 2    \* longest compilation.errors list
MaxGateErrors == 1  \* longest compilation.errors list while requests are served
MaxEvents == 2    \* a compilation starts only while the pass has published fewer events
MaxCalls == 4     \* calls of buildFallbackError
MaxEntries == 2   \* entries in the registry at a time
MaxMissing == 1   \* pages whose source file is gone
MaxStack == 4     \* call frames the stack holds

NULL == "null"

\* ---------------------------------------------------------- error objects
ClientFatal == {"clientFatal", "clientFatalENOENT"}
ServerFatal == {"serverFatal", "serverFatalENOENT"}
CompileErrors == {"errLib", "errUtil", "errIndex", "errMain", "errAnon", "errNoModule"}
\* what on-demand-entries may reject ensurePage with: two Error objects and
\* a plain object {code: 'ENOENT'} that is not an Error
OnDemandRejections == {"pageNotFound", "buildFailed", "enoentObject"}
WrappedError == "wrappedError"   \* new Error(error + '')

ErrorCode(e) ==
  IF e \in {"clientFatalENOENT", "serverFatalENOENT", "pageNotFound",
            "errIndex", "enoentObject"}
  THEN "ENOENT" ELSE NULL

ErrorModule(e) ==
  CASE e = "errLib" -> "lib.js"
    [] e = "errUtil" -> "util.js"
    [] e = "errAnon" -> "anon.js"
    [] e = "errIndex" -> "index.js"
    [] e = "errMain" -> "main.js"
    [] OTHER -> NULL

isError(v) == v # "enoentObject"

\* ----------------------------------------------------------- module graph
\* module.issuer and module.name of the modules the errors point at
Modules == {"util.js", "lib.js", "about.js", "index.js", "main.js", "anon.js"}
Issuer(m) ==
  CASE m = "util.js" -> "lib.js"
    [] m = "lib.js" -> "about.js"
    [] OTHER -> NULL

ModuleName(m) ==
  CASE m = "about.js" -> "pages/about"
    [] m = "index.js" -> "pages/index"
    [] m = "main.js" -> "main"
    [] OTHER -> ""

\* ------------------------------------------------------- names and routes
PageKeys == {"pages/about", "pages/index", "pages/_middleware", "pages/_document"}
Keys == PageKeys \cup {"main"}
KeyOrder == <<"pages/about", "pages/index", "pages/_middleware", "pages/_document", "main">>
NoRoute == NULL

StartsWithPages(key) == key \in PageKeys \cup {"pages/_error"}

getRouteFromEntrypoint(name) ==
  CASE name = "pages/about" -> "/about"
    [] name = "pages/index" -> "/"
    [] name = "pages/_error" -> "/_error"
    [] name = "pages/_middleware" -> "/_middleware"
    [] name = "pages/_document" -> "/_document"
    [] OTHER -> NoRoute

\* pg.substr('pages'.length)
SubstrPages(pg) ==
  CASE pg = "pages/about" -> "/about"
    [] pg = "pages/index" -> "/index"
    [] pg = "pages/_error" -> "/_error"
    [] pg = "pages/_middleware" -> "/_middleware"
    [] pg = "pages/_document" -> "/_document"
    [] OTHER -> pg

normalizePathSep(path) ==
  CASE path = "\\about" -> "/about"
    [] path = "\\index" -> "/index"
    [] OTHER -> path

denormalizePagePath(page) ==
  LET p == normalizePathSep(page) IN
  IF p = "/index" THEN "/" ELSE p

MIDDLEWARE_ROUTE(name) == name \in {"pages/_middleware", "/_middleware"}

API_ROUTE(url) == url = "/api/hello"

BLOCKED_PAGES == {"/_document", "/_app", "/_error"}

Difference(main, sub) == main \ sub

diff_swapped(a, b) == {v \in b : v \notin a}

\* new Set([...a].filter((v) => !b.has(v)))
diff(a, b) == {v \in a : v \notin b}

\* the members of S as a list, in the iteration order KeyOrder
SeqOfSet(S) == SelectSeq(KeyOrder, LAMBDA k : k \in S)

Range(s) == {s[i] : i \in 1..Len(s)}

\* ------------------------------------------------------------------ state
VARIABLES
  clientError, serverError,       \* this.clientError, this.serverError
  clientStats, serverStats,       \* this.clientStats, this.serverStats
  serverPrevDocumentHash,         \* this.serverPrevDocumentHash
  prevChunkNames,                 \* this.prevChunkNames
  changedClientPages, changedServerPages,
  prevClientPageHashes, prevServerPageHashes,
  inflight,                       \* the compilation between its emit and its done/failed hook
  doneCompilers,                  \* the compilers whose last pass is done
  multiPending,                   \* the multi-compiler done hook is due
  sent,                           \* the events published in the current pass
  passLog,                        \* what the current pass's compilations did
  req, res, run,                  \* the request HotReloader.run is serving, its response, its locals
  fallbackWatcher,                \* this.fallbackWatcher is set
  fallbackCompilers,              \* the fallback compilers created, each with its watcher
  fallbackCalls,                  \* where each call of buildFallbackError stands
  webServerRuntime,               \* this.webServerRuntime
  entries,                        \* the on-demand entries registry
  missingSources,                 \* the pages whose source file is gone
  entrypoints,                    \* the entry map config.entry returned to each target
  entryPass,                      \* the targets whose entry map is still due in the pass
  walk,                           \* the call of findEntryModule in progress
  ensured                         \* the last call of ensurePage from outside run

hookVars == <<clientError, serverError, clientStats, serverStats,
              serverPrevDocumentHash, prevChunkNames, changedClientPages,
              changedServerPages, prevClientPageHashes, prevServerPageHashes,
              inflight, doneCompilers, multiPending, sent, passLog>>
gateVars == <<req, res, run>>
fallbackVars == <<fallbackWatcher, fallbackCompilers, fallbackCalls>>
entryVars == <<webServerRuntime, entries, missingSources, entrypoints, entryPass>>
startVars == <<fallbackVars, entryVars, walk, ensured>>
vars == <<hookVars, gateVars, startVars>>

\* --------------------------------------------------------- error lookup
findEntryModule_noWalk(issuer) == issuer

\* Recursively look up the issuer till it ends up at the root
RECURSIVE findEntryModule(_)
findEntryModule(issuer) ==
  IF Issuer(issuer) # NULL THEN findEntryModule(Issuer(issuer)) ELSE issuer

\* the route erroredPages files an error under, NoRoute when it skips it
ErrorPage(error) ==
  IF ErrorModule(error) = NULL THEN NoRoute
  ELSE LET name == ModuleName(findEntryModule(ErrorModule(error))) IN
       IF name = "" THEN NoRoute ELSE getRouteFromEntrypoint(name)

\* erroredPages(compilation)[page]; an absent key is the empty list
erroredPages(errors, page) ==
  SelectSeq(errors, LAMBDA e : ErrorPage(e) # NoRoute /\ ErrorPage(e) = page)

NoStats == [isNull |-> TRUE, errors |-> <<>>]
hasErrors(stats) == ~stats.isNull /\ Len(stats.errors) > 0

getCompilationErrors_noFallback(page) ==
  LET normalizedPage == normalizePathSep(page) IN
  IF clientError # NULL \/ serverError # NULL
  THEN << IF clientError # NULL THEN clientError ELSE serverError >>
  ELSE IF hasErrors(clientStats) THEN
    erroredPages(clientStats.errors, normalizedPage)
  ELSE IF hasErrors(serverStats) THEN
    erroredPages(serverStats.errors, normalizedPage)
  ELSE <<>>

getCompilationErrors_clientOnlyFatal(page) ==
  LET normalizedPage == normalizePathSep(page) IN
  IF clientError # NULL THEN <<clientError>>
  ELSE IF hasErrors(clientStats) THEN
    IF Len(erroredPages(clientStats.errors, normalizedPage)) > 0
    THEN erroredPages(clientStats.errors, normalizedPage)
    ELSE clientStats.errors
  ELSE IF hasErrors(serverStats) THEN
    IF Len(erroredPages(serverStats.errors, normalizedPage)) > 0
    THEN erroredPages(serverStats.errors, normalizedPage)
    ELSE serverStats.errors
  ELSE <<>>

getCompilationErrors(page) ==
  LET normalizedPage == normalizePathSep(page) IN
  IF clientError # NULL \/ serverError # NULL
  THEN << IF clientError # NULL THEN clientError ELSE serverError >>
  ELSE IF hasErrors(clientStats) THEN
    IF Len(erroredPages(clientStats.errors, normalizedPage)) > 0
    THEN erroredPages(clientStats.errors, normalizedPage)
    ELSE clientStats.errors
  ELSE IF hasErrors(serverStats) THEN
    IF Len(erroredPages(serverStats.errors, normalizedPage)) > 0
    THEN erroredPages(serverStats.errors, normalizedPage)
    ELSE serverStats.errors
  ELSE <<>>

\* ------------------------------------------------------------- responses
NoHeader == NULL
FreshResponse ==
  [allowOrigin |-> NoHeader, allowMethods |-> NoHeader, allowHeaders |-> NoHeader,
   cacheControl |-> NoHeader, statusCode |-> 200, body |-> NULL, ended |-> FALSE]

renderScriptError_always500(response, error) ==
  [response EXCEPT !.cacheControl = "no-cache, no-store, max-age=0, must-revalidate",
                   !.statusCode = 500, !.body = "500 - Internal Error", !.ended = TRUE]

renderScriptError(response, error) ==
  LET r == [response EXCEPT
              !.cacheControl = "no-cache, no-store, max-age=0, must-revalidate"] IN
  IF ErrorCode(error) = "ENOENT"
  THEN [r EXCEPT !.statusCode = 404, !.body = "404 - Not Found", !.ended = TRUE]
  ELSE [r EXCEPT !.statusCode = 500, !.body = "500 - Internal Error", !.ended = TRUE]

\* ------------------------------------------------------------- requests
NoOrigin == NULL
Urls ==
  {"/api/hello", "/about",
   "/_next/static/chunks/pages/about.js",
   "/_next/static/chunks/pages/index.js",
   "/_next/static/chunks/pages/my%20page.js",
   "/_next/static/chunks/pages/_error.js",
   "/_next/static/chunks/pages/_document.js",
   "/_next/static/chunks/pages/%E0%A4%A.js"}

Requests ==
  [method : {"GET", "OPTIONS"},
   origin : {NoOrigin, "http://zone.example"},
   requestHeaders : {NoHeader, "x-custom"},
   url : Urls]

NoRequest == [method |-> NULL, origin |-> NoOrigin, requestHeaders |-> NoHeader, url |-> NULL]

\* the result of addCorsSupport: the response with its headers, and preflight
addCorsSupport_noPreflight(request, response) ==
  IF API_ROUTE(request.url) THEN [res |-> response, preflight |-> FALSE]
  ELSE IF request.origin = NoOrigin THEN [res |-> response, preflight |-> FALSE]
  ELSE
    LET r1 == [response EXCEPT !.allowOrigin = request.origin,
                               !.allowMethods = "OPTIONS, GET"]
        r2 == IF request.requestHeaders # NoHeader
              THEN [r1 EXCEPT !.allowHeaders = request.requestHeaders] ELSE r1
    IN [res |-> r2, preflight |-> FALSE]

addCorsSupport_apiToo(request, response) ==
  IF request.origin = NoOrigin THEN [res |-> response, preflight |-> FALSE]
  ELSE
    LET r1 == [response EXCEPT !.allowOrigin = request.origin,
                               !.allowMethods = "OPTIONS, GET"]
        r2 == IF request.requestHeaders # NoHeader
              THEN [r1 EXCEPT !.allowHeaders = request.requestHeaders] ELSE r1
    IN IF request.method = "OPTIONS"
       THEN [res |-> [r2 EXCEPT !.statusCode = 200, !.body = "", !.ended = TRUE],
                    preflight |-> TRUE]
       ELSE [res |-> r2, preflight |-> FALSE]

addCorsSupport(request, response) ==
  IF API_ROUTE(request.url) THEN [res |-> response, preflight |-> FALSE]
  ELSE IF request.origin = NoOrigin THEN [res |-> response, preflight |-> FALSE]
  ELSE
    LET r1 == [response EXCEPT !.allowOrigin = request.origin,
                               !.allowMethods = "OPTIONS, GET"]
        r2 == IF request.requestHeaders # NoHeader
              THEN [r1 EXCEPT !.allowHeaders = request.requestHeaders] ELSE r1
    IN IF request.method = "OPTIONS"
       THEN [res |-> [r2 EXCEPT !.statusCode = 200, !.body = "", !.ended = TRUE],
                    preflight |-> TRUE]
       ELSE [res |-> r2, preflight |-> FALSE]

\* route('/_next/static/chunks/pages/:path*.js(\\.map|)'): params.path, here
\* of one segment, or NULL when the pathname does not match
matchNextPageBundleRequest(pathname) ==
  CASE pathname = "/_next/static/chunks/pages/about.js" -> <<"about">>
    [] pathname = "/_next/static/chunks/pages/index.js" -> <<"index">>
    [] pathname = "/_next/static/chunks/pages/my%20page.js" -> <<"my%20page">>
    [] pathname = "/_next/static/chunks/pages/_error.js" -> <<"_error">>
    [] pathname = "/_next/static/chunks/pages/_document.js" -> <<"_document">>
    [] pathname = "/_next/static/chunks/pages/%E0%A4%A.js" -> <<"%E0%A4%A">>
    [] OTHER -> <<>>

Malformed == "URIError"
decodeURIComponent(param) ==
  CASE param = "my%20page" -> "my page"
    [] param = "%E0%A4%A" -> Malformed
    [] OTHER -> param

DecodedPagePath_keepsRaw(params) ==
  LET d == decodeURIComponent(params[1]) IN
  CASE d = "about" -> "/about"
    [] d = "index" -> "/index"
    [] d = "my page" -> "/my page"
    [] d = "_error" -> "/_error"
    [] d = "_document" -> "/_document"
    [] OTHER -> "/"

\* `/${params.path.map(decodeURIComponent).join('/')}`, Malformed when a
\* segment does not decode
DecodedPagePath(params) ==
  LET d == decodeURIComponent(params[1]) IN
  CASE d = Malformed -> Malformed
    [] d = "about" -> "/about"
    [] d = "index" -> "/index"
    [] d = "my page" -> "/my page"
    [] d = "_error" -> "/_error"
    [] d = "_document" -> "/_document"
    [] OTHER -> "/"

Pages == {"/about", "/", "/my page", "/_error", "/_document"}

\* ------------------------------------------------------------ compilations
\* A compilation's named chunks / entrypoints: key -> hash of the chunk whose
\* id is the key, NoHash when the compilation has no such chunk.
Hashes == {"h1", "h2"}
NoHash == NULL
NoChunks == [k \in Keys |-> NoHash]
ClientChunkSets ==
  {c \in [Keys -> Hashes \cup {NoHash}] :
     c["pages/_document"] = NoHash /\ c["main"] = "h1"}
ServerChunkSets ==
  {c \in [Keys -> Hashes \cup {NoHash}] :
     c["pages/_middleware"] = NoHash /\ c["main"] = NoHash}

NoCompilation == [target |-> "none", chunks |-> NoChunks]
Compilers == {"client", "server"}

\* this.send(action, ...args) -> webpackHotMiddleware.publish(...)
ActionEvent(action, args) ==
  [action |-> action, data |-> args, event |-> NULL, pages |-> <<>>]
ObjectEvent(event, pages) ==
  [action |-> NULL, data |-> <<>>, event |-> event, pages |-> pages]

\* the record of the current pass: the pages whose hash changed in it (a key
\* present before and now with another hash), whether the document chunk's
\* hash changed, and what the multi-compiler done hook computed
FreshLog(log) ==
  [log EXCEPT !.complete = FALSE, !.clientChanged = {},
              !.serverChanged = {}, !.docChanged = FALSE, !.serverOnly = {},
              !.atDoneClient = {}, !.atDoneServer = {}]
OpenLog == IF passLog.complete THEN FreshLog(passLog) ELSE passLog
OpenSent == IF passLog.complete THEN <<>> ELSE sent

HashChanged(last, chunks) ==
  {k \in Keys : /\ getRouteFromEntrypoint(k) # NoRoute
                /\ last[k] # NoHash /\ chunks[k] # NoHash /\ last[k] # chunks[k]}
Recorded(last, chunks) ==
  [k \in Keys |-> IF getRouteFromEntrypoint(k) # NoRoute /\ chunks[k] # NoHash
                  THEN chunks[k] ELSE last[k]]

\* ----------------------------------------------------------------- hooks
\* trackPageChanges(pageHashMap, changedItems)(stats): the two collections
\* after the walk over stats.entrypoints
trackPageChanges_noPrevCheck(pageHashMap, changedItems, chunks) ==
  [pageHashMap |->
     [k \in Keys |-> IF StartsWithPages(k) /\ chunks[k] # NoHash
                     THEN chunks[k] ELSE pageHashMap[k]],
   changedItems |->
     changedItems \cup
       {k \in Keys : /\ StartsWithPages(k) /\ chunks[k] # NoHash
                     /\ pageHashMap[k] # chunks[k]}]

trackPageChanges(pageHashMap, changedItems, chunks) ==
  [pageHashMap |->
     [k \in Keys |-> IF StartsWithPages(k) /\ chunks[k] # NoHash
                     THEN chunks[k] ELSE pageHashMap[k]],
   changedItems |->
     changedItems \cup
       {k \in Keys : /\ StartsWithPages(k) /\ chunks[k] # NoHash
                     /\ pageHashMap[k] # NoHash /\ pageHashMap[k] # chunks[k]}]

\* compilers[0].hooks.emit
ClientEmit(chunks) ==
  /\ inflight.target = "none" /\ ~multiPending
  /\ Len(OpenSent) < MaxEvents
  /\ LET t == trackPageChanges(prevClientPageHashes, changedClientPages, chunks) IN
       /\ prevClientPageHashes' = t.pageHashMap
       /\ changedClientPages' = t.changedItems
  /\ inflight' = [target |-> "client", chunks |-> chunks]
  /\ doneCompilers' = doneCompilers \ {"client"}
  /\ passLog' = [OpenLog EXCEPT
       !.clientChanged = @ \cup HashChanged(passLog.lastClient, chunks),
       !.lastClient = Recorded(@, chunks)]
  /\ sent' = OpenSent
  /\ UNCHANGED <<clientError, serverError, clientStats, serverStats,
                 serverPrevDocumentHash, prevChunkNames, changedServerPages,
                 prevServerPageHashes, multiPending, gateVars, startVars>>

\* compilers[1].hooks.emit
ServerEmit(chunks) ==
  /\ inflight.target = "none" /\ ~multiPending
  /\ Len(OpenSent) < MaxEvents
  /\ LET t == trackPageChanges(prevServerPageHashes, changedServerPages, chunks) IN
       /\ prevServerPageHashes' = t.pageHashMap
       /\ changedServerPages' = t.changedItems
  /\ inflight' = [target |-> "server", chunks |-> chunks]
  /\ doneCompilers' = doneCompilers \ {"server"}
  /\ passLog' = [OpenLog EXCEPT
       !.serverChanged = @ \cup HashChanged(passLog.lastServer, chunks),
       !.lastServer = Recorded(@, chunks)]
  /\ sent' = OpenSent
  /\ UNCHANGED <<clientError, serverError, clientStats, serverStats,
                 serverPrevDocumentHash, prevChunkNames, changedClientPages,
                 prevClientPageHashes, multiPending, gateVars, startVars>>

ClientFailed_abortsSibling(err) ==
  /\ inflight.target \in {"none", "client"} /\ ~multiPending
  /\ clientError' = err
  /\ clientStats' = NoStats
  /\ serverStats' = NoStats
  /\ changedServerPages' = {}
  /\ inflight' = NoCompilation
  /\ doneCompilers' = doneCompilers \ {"client"}
  /\ passLog' = OpenLog
  /\ sent' = OpenSent
  /\ UNCHANGED <<serverError, serverPrevDocumentHash, prevChunkNames,
                 changedClientPages, prevClientPageHashes,
                 prevServerPageHashes, multiPending, gateVars, startVars>>

\* compilers[0].hooks.failed
ClientFailed(err) ==
  /\ inflight.target \in {"none", "client"} /\ ~multiPending
  /\ clientError' = err
  /\ clientStats' = NoStats
  /\ inflight' = NoCompilation
  /\ doneCompilers' = doneCompilers \ {"client"}
  /\ passLog' = OpenLog
  /\ sent' = OpenSent
  /\ UNCHANGED <<serverError, serverStats, serverPrevDocumentHash, prevChunkNames,
                 changedClientPages, changedServerPages, prevClientPageHashes,
                 prevServerPageHashes, multiPending, gateVars, startVars>>

ServerFailed_keepsStats(err) ==
  /\ inflight.target \in {"none", "server"} /\ ~multiPending
  /\ serverError' = err
  /\ inflight' = NoCompilation
  /\ doneCompilers' = doneCompilers \ {"server"}
  /\ passLog' = OpenLog
  /\ sent' = OpenSent
  /\ UNCHANGED <<clientError, clientStats, serverStats, serverPrevDocumentHash,
                 prevChunkNames, changedClientPages, changedServerPages,
                 prevClientPageHashes, prevServerPageHashes, multiPending,
                 gateVars, startVars>>

\* compilers[1].hooks.failed
ServerFailed(err) ==
  /\ inflight.target \in {"none", "server"} /\ ~multiPending
  /\ serverError' = err
  /\ serverStats' = NoStats
  /\ inflight' = NoCompilation
  /\ doneCompilers' = doneCompilers \ {"server"}
  /\ passLog' = OpenLog
  /\ sent' = OpenSent
  /\ UNCHANGED <<clientError, clientStats, serverPrevDocumentHash, prevChunkNames,
                 changedClientPages, changedServerPages, prevClientPageHashes,
                 prevServerPageHashes, multiPending, gateVars, startVars>>

\* a done hook belongs to the compilation in flight, or to one that did not
\* emit (webpack skips the emit of a compilation with errors)
DoneOf(target, stats) ==
  /\ ~multiPending
  /\ \/ inflight.target = target /\ stats.chunks = inflight.chunks
     \/ inflight.target = "none" /\ Len(stats.errors) > 0

NoChunkNames == [defined |-> FALSE, names |-> {}]

\* compilers[0].hooks.done
ClientDone(stats) ==
  /\ DoneOf("client", stats)
  /\ clientError' = NULL
  /\ clientStats' = [isNull |-> FALSE, errors |-> stats.errors]
  /\ LET chunkNames == {name \in Keys : stats.chunks[name] # NoHash
                                        /\ getRouteFromEntrypoint(name) # NoRoute}
         addedPages == IF prevChunkNames.defined
                       THEN diff(chunkNames, prevChunkNames.names) ELSE {}
         removedPages == IF prevChunkNames.defined
                         THEN diff(prevChunkNames.names, chunkNames) ELSE {}
         addedSeq == SeqOfSet(addedPages)
         removedSeq == SeqOfSet(removedPages)
         added == [i \in 1..Len(addedSeq) |->
                     ActionEvent("addedPage", <<getRouteFromEntrypoint(addedSeq[i])>>)]
         removed == [i \in 1..Len(removedSeq) |->
                       ActionEvent("removedPage", <<getRouteFromEntrypoint(removedSeq[i])>>)]
     IN /\ sent' = OpenSent \o added \o removed
        /\ prevChunkNames' = [defined |-> TRUE, names |-> chunkNames]
  /\ inflight' = NoCompilation
  /\ doneCompilers' = doneCompilers \cup {"client"}
  /\ multiPending' = (doneCompilers' = Compilers)
  /\ passLog' = OpenLog
  /\ UNCHANGED <<serverError, serverStats, serverPrevDocumentHash,
                 changedClientPages, changedServerPages, prevClientPageHashes,
                 prevServerPageHashes, gateVars, startVars>>

ServerDone_reloadOnFirst(stats) ==
  /\ DoneOf("server", stats)
  /\ serverError' = NULL
  /\ serverStats' = [isNull |-> FALSE, errors |-> stats.errors]
  /\ LET documentHash == stats.chunks["pages/_document"] IN
       IF documentHash = NoHash
       THEN /\ sent' = OpenSent
            /\ UNCHANGED serverPrevDocumentHash
       ELSE IF documentHash = serverPrevDocumentHash
       THEN /\ sent' = OpenSent
            /\ UNCHANGED serverPrevDocumentHash
       ELSE /\ sent' = Append(OpenSent, ActionEvent("reloadPage", <<>>))
            /\ serverPrevDocumentHash' = documentHash
  /\ inflight' = NoCompilation
  /\ doneCompilers' = doneCompilers \cup {"server"}
  /\ multiPending' = (doneCompilers' = Compilers)
  /\ passLog' = [OpenLog EXCEPT
       !.docChanged = @ \/ (/\ stats.chunks["pages/_document"] # NoHash
                            /\ passLog.lastDoc # NoHash
                            /\ passLog.lastDoc # stats.chunks["pages/_document"]),
       !.lastDoc = IF stats.chunks["pages/_document"] # NoHash
                   THEN stats.chunks["pages/_document"] ELSE @]
  /\ UNCHANGED <<clientError, clientStats, prevChunkNames,
                 changedClientPages, changedServerPages, prevClientPageHashes,
                 prevServerPageHashes, gateVars, startVars>>

\* compilers[1].hooks.done
ServerDone(stats) ==
  /\ DoneOf("server", stats)
  /\ serverError' = NULL
  /\ serverStats' = [isNull |-> FALSE, errors |-> stats.errors]
  /\ LET documentHash == stats.chunks["pages/_document"] IN
       IF documentHash = NoHash
       THEN \* '_document.js chunk not found'
            /\ sent' = OpenSent
            /\ UNCHANGED serverPrevDocumentHash
       ELSE IF serverPrevDocumentHash = NoHash
       THEN /\ serverPrevDocumentHash' = documentHash
            /\ sent' = OpenSent
       ELSE IF documentHash = serverPrevDocumentHash
       THEN /\ sent' = OpenSent
            /\ UNCHANGED serverPrevDocumentHash
       ELSE /\ sent' = Append(OpenSent, ActionEvent("reloadPage", <<>>))
            /\ serverPrevDocumentHash' = documentHash
  /\ inflight' = NoCompilation
  /\ doneCompilers' = doneCompilers \cup {"server"}
  /\ multiPending' = (doneCompilers' = Compilers)
  /\ passLog' = [OpenLog EXCEPT
       !.docChanged = @ \/ (/\ stats.chunks["pages/_document"] # NoHash
                            /\ passLog.lastDoc # NoHash
                            /\ passLog.lastDoc # stats.chunks["pages/_document"]),
       !.lastDoc = IF stats.chunks["pages/_document"] # NoHash
                   THEN stats.chunks["pages/_document"] ELSE @]
  /\ UNCHANGED <<clientError, clientStats, prevChunkNames,
                 changedClientPages, changedServerPages, prevClientPageHashes,
                 prevServerPageHashes, gateVars, startVars>>

serverOnlyChangesOf_swapped(changedServer, changedClient) ==
  Difference(changedClient, changedServer)

\* difference<string>(changedServerPages, changedClientPages)
serverOnlyChangesOf(changedServer, changedClient) ==
  Difference(changedServer, changedClient)

\* serverOnlyChanges.map((pg) => denormalizePagePath(pg.substr('pages'.length)))
serverOnlyPages(serverOnlyChanges) ==
  LET pgs == SeqOfSet(serverOnlyChanges)
  IN [i \in 1..Len(pgs) |-> denormalizePagePath(SubstrPages(pgs[i]))]

middlewareChangesOf_anyChange(changedClient) == changedClient

\* Array.from(changedClientPages).filter((name) => name.match(MIDDLEWARE_ROUTE))
middlewareChangesOf(changedClient) ==
  {name \in changedClient : MIDDLEWARE_ROUTE(name)}

MultiDone_keepsClientPages ==
  /\ multiPending
  /\ LET serverOnlyChanges == serverOnlyChangesOf(changedServerPages, changedClientPages)
         middlewareChanges == middlewareChangesOf(changedClientPages)
     IN /\ sent' = sent
             \o (IF middlewareChanges # {}
                 THEN <<ObjectEvent("middlewareChanges", <<>>)>> ELSE <<>>)
             \o (IF serverOnlyChanges # {}
                 THEN <<ObjectEvent("serverOnlyChanges", serverOnlyPages(serverOnlyChanges))>>
                 ELSE <<>>)
        /\ passLog' = [passLog EXCEPT !.complete = TRUE,
                                      !.serverOnly = serverOnlyChanges,
                                      !.atDoneClient = changedClientPages,
                                      !.atDoneServer = changedServerPages]
  /\ changedServerPages' = {}
  /\ multiPending' = FALSE
  /\ UNCHANGED <<changedClientPages, clientError, serverError, clientStats, serverStats,
                 serverPrevDocumentHash, prevChunkNames, prevClientPageHashes,
                 prevServerPageHashes, inflight, doneCompilers, gateVars, startVars>>

\* multiCompiler.hooks.done
MultiDone ==
  /\ multiPending
  /\ LET serverOnlyChanges == serverOnlyChangesOf(changedServerPages, changedClientPages)
         middlewareChanges == middlewareChangesOf(changedClientPages)
     IN /\ sent' = sent
             \o (IF middlewareChanges # {}
                 THEN <<ObjectEvent("middlewareChanges", <<>>)>> ELSE <<>>)
             \o (IF serverOnlyChanges # {}
                 THEN <<ObjectEvent("serverOnlyChanges", serverOnlyPages(serverOnlyChanges))>>
                 ELSE <<>>)
        /\ passLog' = [passLog EXCEPT !.complete = TRUE,
                                      !.serverOnly = serverOnlyChanges,
                                      !.atDoneClient = changedClientPages,
                                      !.atDoneServer = changedServerPages]
  /\ changedClientPages' = {}
  /\ changedServerPages' = {}
  /\ multiPending' = FALSE
  /\ UNCHANGED <<clientError, serverError, clientStats, serverStats,
                 serverPrevDocumentHash, prevChunkNames, prevClientPageHashes,
                 prevServerPageHashes, inflight, doneCompilers, gateVars, startVars>>

\* ------------------------------------------------------------------- gate
ensurePage_noEarlyReturn(page, clientOnly) ==
  LET error == IF clientOnly THEN clientError
               ELSE IF serverError # NULL THEN serverError ELSE clientError
  IN IF error # NULL
     THEN [state |-> "rejected", error |-> error]
     ELSE [state |-> "pending", error |-> NULL]

\* HotReloader.ensurePage up to its hand-over to on-demand-entries
ensurePage(page, clientOnly) ==
  IF page # "/_error" /\ page \in BLOCKED_PAGES
  THEN [state |-> "resolved", error |-> NULL]
  ELSE LET error == IF clientOnly THEN clientError
                    ELSE IF serverError # NULL THEN serverError ELSE clientError
       IN IF error # NULL
          THEN [state |-> "rejected", error |-> error]
          ELSE [state |-> "pending", error |-> NULL]

NotCalled == [state |-> "none", error |-> NULL]
FreshRun ==
  [pc |-> "idle", page |-> NULL, ensureCalls |-> 0, ensure |-> NotCalled,
   errors |-> <<>>, finished |-> FALSE, thrown |-> NULL, rendered |-> NULL,
   gateReached |-> FALSE]

\* page === '/_error' || BLOCKED_PAGES.indexOf(page) === -1
PageAllowed(page) == page = "/_error" \/ page \notin BLOCKED_PAGES

\* HotReloader.run up to its first suspension: CORS, the bundle match, the
\* decoding and the call of ensurePage. The middlewares, which call next(),
\* leave the response alone.
Run(request) ==
  /\ run.pc # "awaitEnsure"
  /\ req' = request
  /\ LET cors == addCorsSupport(request, FreshResponse)
         params == matchNextPageBundleRequest(request.url)
         decodedPagePath == DecodedPagePath(params)
         page == denormalizePagePath(decodedPagePath)
     IN /\ res' = cors.res
        /\ run' =
             IF cors.preflight THEN [FreshRun EXCEPT !.pc = "returned"]
             ELSE IF params = <<>>
               THEN [FreshRun EXCEPT !.pc = "returned", !.gateReached = TRUE]
             ELSE IF decodedPagePath = Malformed
               THEN [FreshRun EXCEPT !.pc = "rejected", !.thrown = "DecodeError",
                                     !.gateReached = TRUE]
             ELSE IF PageAllowed(page)
               THEN [FreshRun EXCEPT !.pc = "awaitEnsure", !.page = page,
                                     !.ensureCalls = 1,
                                     !.ensure = ensurePage(page, TRUE),
                                     !.gateReached = TRUE]
             ELSE [FreshRun EXCEPT !.pc = "returned", !.page = page,
                                   !.gateReached = TRUE]
  /\ UNCHANGED <<hookVars, startVars>>

\* isError(error) ? error : new Error(error + '')
AsError(error) == IF isError(error) THEN error ELSE WrappedError

\* the catch branch: ensurePage rejected
RunEnsureRejected(error) ==
  /\ run.pc = "awaitEnsure"
  /\ \/ run.ensure.state = "rejected" /\ error = run.ensure.error
     \/ run.ensure.state = "pending" /\ error \in OnDemandRejections
  /\ res' = renderScriptError(res, AsError(error))
  /\ run' = [run EXCEPT !.pc = "returned", !.finished = TRUE,
                        !.ensure = [state |-> "rejected", error |-> error],
                        !.rendered = AsError(error)]
  /\ UNCHANGED <<req, hookVars, startVars>>

HasScriptErrors_moreThanOne(errors) == Len(errors) > 1

\* errors.length > 0
HasScriptErrors(errors) == Len(errors) > 0

\* ensurePage resolved: the check of getCompilationErrors
RunEnsureResolved ==
  /\ run.pc = "awaitEnsure"
  /\ run.ensure.state \in {"pending", "resolved"}
  /\ LET errors == getCompilationErrors(run.page) IN
       IF HasScriptErrors(errors)
       THEN /\ res' = renderScriptError(res, errors[1])
            /\ run' = [run EXCEPT !.pc = "returned", !.finished = TRUE,
                                  !.errors = errors, !.rendered = errors[1],
                                  !.ensure = [state |-> "resolved", error |-> NULL]]
       ELSE /\ res' = res
            /\ run' = [run EXCEPT !.pc = "returned", !.errors = errors,
                                  !.ensure = [state |-> "resolved", error |-> NULL]]
  /\ UNCHANGED <<req, hookVars, startVars>>

\* ------------------------------------------- findEntryModule, call by call
\* Issuer graphs of three modules, well-formed (every chain ends in a module
\* without issuer) or with issuer links that form a cycle.
WalkModules == {"a.js", "b.js", "c.js"}
IssuerGraphs == [WalkModules -> WalkModules \cup {NULL}]
NoGraph == [m \in WalkModules |-> NULL]
NoWalk == [pc |-> "idle", graph |-> NoGraph, node |-> NULL, depth |-> 0,
           result |-> NULL]

\* findEntryModule(error.module) is called
FindEntryModuleCall(graph, module) ==
  /\ walk.pc # "walking"
  /\ walk' = [pc |-> "walking", graph |-> graph, node |-> module, depth |-> 1,
              result |-> NULL]
  /\ UNCHANGED <<hookVars, gateVars, fallbackVars, entryVars, ensured>>

\* one activation of findEntryModule: it calls itself with issuer.issuer, or
\* returns issuer; a call the stack has no room for throws a RangeError
FindEntryModuleStep ==
  /\ walk.pc = "walking"
  /\ walk' = IF walk.graph[walk.node] # NULL
             THEN IF walk.depth < MaxStack
                  THEN [walk EXCEPT !.node = walk.graph[walk.node],
                                    !.depth = walk.depth + 1]
                  ELSE [walk EXCEPT !.pc = "RangeError"]
             ELSE [walk EXCEPT !.pc = "returned", !.result = walk.node]
  /\ UNCHANGED <<hookVars, gateVars, fallbackVars, entryVars, ensured>>

\* --------------------------------------------------- buildFallbackError
FallbackCallIds == 1..MaxCalls
NoFallbackCalls == [c \in FallbackCallIds |-> "idle"]

\* buildFallbackError up to its first await: the check of this.fallbackWatcher
BuildFallbackError(c) ==
  /\ fallbackCalls[c] = "idle"
  /\ fallbackCalls' = [fallbackCalls EXCEPT ![c] =
                         IF fallbackWatcher THEN "noop" ELSE "awaitConfig"]
  /\ UNCHANGED <<fallbackWatcher, fallbackCompilers, hookVars, gateVars, entryVars, walk, ensured>>

\* getBaseWebpackConfig resolved: webpack(fallbackConfig) and
\* fallbackCompiler.watch(...), then the wait for the first build
FallbackConfigResolved(c) ==
  /\ fallbackCalls[c] = "awaitConfig"
  /\ fallbackCompilers' = fallbackCompilers + 1
  /\ fallbackCalls' = [fallbackCalls EXCEPT ![c] = "awaitBoot"]
  /\ UNCHANGED <<fallbackWatcher, hookVars, gateVars, entryVars, walk, ensured>>

\* the watch callback resolved the promise: this.fallbackWatcher = true
FallbackBooted(c) ==
  /\ fallbackCalls[c] = "awaitBoot"
  /\ fallbackWatcher' = TRUE
  /\ fallbackCalls' = [fallbackCalls EXCEPT ![c] = "built"]
  /\ UNCHANGED <<fallbackCompilers, hookVars, gateVars, entryVars, walk, ensured>>

\* ---------------------------------------------------------- config.entry
\* The registry keys `${type}${page}` of a page, an API route, a middleware
\* and the error page, for the key prefixes client and server.
EntryPages == {"/about", "/api/hello", "/_middleware", "/_error"}
ClientKeys == {"client/about", "client/api/hello", "client/_middleware", "client/_error"}
ServerKeys == {"server/about", "server/api/hello", "server/_middleware", "server/_error"}
EntryKeys == ClientKeys \cup ServerKeys

\* pageKey.startsWith('client')
IsClientKey(pageKey) == pageKey \in ClientKeys

\* pageKey.slice(isClientKey ? 'client'.length : 'server'.length)
PageOf(pageKey) ==
  CASE pageKey \in {"client/about", "server/about"} -> "/about"
    [] pageKey \in {"client/api/hello", "server/api/hello"} -> "/api/hello"
    [] pageKey \in {"client/_middleware", "server/_middleware"} -> "/_middleware"
    [] OTHER -> "/_error"

NoEntry == [status |-> "absent", dispose |-> FALSE]
NoEntries == [k \in EntryKeys |-> NoEntry]
Registered == {k \in EntryKeys : entries[k] # NoEntry}

\* the compilations of webpack(configs), in the order of getWebpackConfig
Targets == {"client", "server", "server-web"}
NoEntrypoints == [t \in Targets |-> {}]
ConfigsOf(runtime) ==
  IF runtime THEN <<"client", "server", "server-web">> ELSE <<"client", "server">>
\* the pass: the compilations still to ask for their entries, whether all
\* have, and the keys deleted from the registry meanwhile
NoEntryPass == [due |-> <<>>, complete |-> FALSE, removed |-> {}]

\* on-demand-entries puts a page's entry into the registry
AddEntry(pageKey) ==
  /\ entryPass.due = <<>>
  /\ entries[pageKey] = NoEntry
  /\ Cardinality(Registered) < MaxEntries
  /\ entries' = [entries EXCEPT ![pageKey] = [status |-> "ADDED", dispose |-> FALSE]]
  /\ entryPass' = NoEntryPass
  /\ UNCHANGED <<webServerRuntime, missingSources, entrypoints,
                 hookVars, gateVars, fallbackVars, walk, ensured>>

\* on-demand-entries flags an inactive entry for disposal
FlagDispose(pageKey) ==
  /\ entryPass.due = <<>>
  /\ entries[pageKey] # NoEntry /\ ~entries[pageKey].dispose
  /\ entries' = [entries EXCEPT ![pageKey].dispose = TRUE]
  /\ entryPass' = NoEntryPass
  /\ UNCHANGED <<webServerRuntime, missingSources, entrypoints,
                 hookVars, gateVars, fallbackVars, walk, ensured>>

\* a page's source file is removed
RemoveSource(page) ==
  /\ entryPass.due = <<>>
  /\ page \notin missingSources
  /\ Cardinality(missingSources) < MaxMissing
  /\ missingSources' = missingSources \cup {page}
  /\ entryPass' = NoEntryPass
  /\ UNCHANGED <<webServerRuntime, entries, entrypoints,
                 hookVars, gateVars, fallbackVars, walk, ensured>>

\* a pass begins: each compilation will ask for its entries, one after the
\* other (configs.parallelism = 1)
StartPass ==
  /\ entryPass.due = <<>>
  /\ entryPass' = [due |-> ConfigsOf(webServerRuntime), complete |-> FALSE,
                   removed |-> {}]
  /\ entrypoints' = NoEntrypoints
  /\ UNCHANGED <<webServerRuntime, entries, missingSources,
                 hookVars, gateVars, fallbackVars, walk, ensured>>

\* the returns before the entry is read: the key is of the other
\* compilation, an API route in the client one, a middleware in a server one
Considered(target, pageKey) ==
  LET isClientCompilation == target = "client"
      page == PageOf(pageKey)
      isMiddleware == MIDDLEWARE_ROUTE(page)
  IN /\ IsClientKey(pageKey) = isClientCompilation
     /\ ~(isClientCompilation /\ API_ROUTE(page) /\ ~isMiddleware)
     /\ ~(~isClientCompilation /\ isMiddleware)

pageExists_ignoresDispose(pageKey) == PageOf(pageKey) \notin missingSources

\* !dispose && (await fileExists(absolutePagePath))
pageExists(pageKey) ==
  ~entries[pageKey].dispose /\ PageOf(pageKey) \notin missingSources

\* the entry gets as far as entries[pageKey].status = BUILDING
Building(target, pageKey, runtime) ==
  /\ Considered(target, pageKey)
  /\ pageExists(pageKey)
  /\ ~(target = "server" /\ runtime /\ ~API_ROUTE(PageOf(pageKey)))

\* entrypoints[bundlePath] is set
Injected(target, pageKey, runtime) ==
  /\ Building(target, pageKey, runtime)
  /\ \/ target = "client"
     \/ target = "server-web" /\ PageOf(pageKey) \notin {"/_app", "/_error", "/_document"}
     \/ target = "server"

\* config.entry of one compilation
ConfigEntry ==
  /\ entryPass.due # <<>>
  /\ LET target == Head(entryPass.due) IN
       /\ entries' =
            [k \in EntryKeys |->
               IF entries[k] = NoEntry \/ ~Considered(target, k) THEN entries[k]
               ELSE IF ~pageExists(k) THEN NoEntry
               ELSE IF Building(target, k, webServerRuntime)
                 THEN [entries[k] EXCEPT !.status = "BUILDING"]
               ELSE entries[k]]
       /\ entrypoints' =
            [entrypoints EXCEPT ![target] =
               {k \in Registered : Injected(target, k, webServerRuntime)}]
       /\ entryPass' = [due |-> Tail(entryPass.due),
                        complete |-> Tail(entryPass.due) = <<>>,
                        removed |-> entryPass.removed \cup
                          {k \in Registered : Considered(target, k) /\ ~pageExists(k)}]
  /\ UNCHANGED <<webServerRuntime, missingSources,
                 hookVars, gateVars, fallbackVars, walk, ensured>>

\* ----------------------------------------------- ensurePage, called directly
\* The pages ensurePage is called with by the server: a page, the error page
\* and the two prebuilt ones.
DirectPages == {"/about", "/_error", "/_document", "/_app"}
NoEnsured == [page |-> NULL, clientOnly |-> FALSE, outcome |-> NotCalled]

\* the registry keys on-demand-entries uses for a page
KeysOf(page, clientOnly) ==
  {k \in EntryKeys : PageOf(k) = page /\ (clientOnly => IsClientKey(k))}

\* HotReloader.ensurePage called by the server; a call handed over to
\* on-demand-entries puts the page's entries into the registry
EnsurePage(page, clientOnly) ==
  LET outcome == ensurePage(page, clientOnly)
      added == IF outcome.state = "pending"
               THEN {k \in KeysOf(page, clientOnly) : entries[k] = NoEntry}
               ELSE {}
  IN /\ Cardinality(Registered \cup added) <= MaxEntries
     /\ ensured' = [page |-> page, clientOnly |-> clientOnly, outcome |-> outcome]
     /\ entries' = [k \in EntryKeys |->
                      IF k \in added THEN [status |-> "ADDED", dispose |-> FALSE]
                      ELSE entries[k]]
     /\ UNCHANGED <<webServerRuntime, missingSources, entrypoints, entryPass,
                    hookVars, gateVars, fallbackVars, walk>>

\* ------------------------------------------------------- specifications
\* the state after construction, with config.experimental.concurrentFeatures
Constructed(concurrentFeatures) ==
  /\ clientError = NULL /\ serverError = NULL
  /\ clientStats = NoStats /\ serverStats = NoStats
  /\ serverPrevDocumentHash = NoHash
  /\ prevChunkNames = NoChunkNames
  /\ changedClientPages = {} /\ changedServerPages = {}
  /\ prevClientPageHashes = NoChunks /\ prevServerPageHashes = NoChunks
  /\ inflight = NoCompilation
  /\ doneCompilers = {}
  /\ multiPending = FALSE
  /\ sent = <<>>
  /\ passLog = [complete |-> FALSE, clientChanged |-> {},
                serverChanged |-> {}, docChanged |-> FALSE, serverOnly |-> {},
                atDoneClient |-> {}, atDoneServer |-> {},
                lastClient |-> NoChunks, lastServer |-> NoChunks, lastDoc |-> NoHash]
  /\ req = NoRequest
  /\ res = FreshResponse
  /\ run = FreshRun
  /\ fallbackWatcher = FALSE
  /\ fallbackCompilers = 0
  /\ fallbackCalls = NoFallbackCalls
  /\ webServerRuntime = concurrentFeatures
  /\ entries = NoEntries
  /\ missingSources = {}
  /\ entrypoints = NoEntrypoints
  /\ entryPass = NoEntryPass
  /\ walk = NoWalk
  /\ ensured = NoEnsured

Init == Constructed(FALSE)

\* The compilations of the specifications that vary the errors, not the hashes
GateClientChunks == [NoChunks EXCEPT !["pages/about"] = "h1", !["main"] = "h1"]
GateServerChunks == [NoChunks EXCEPT !["pages/about"] = "h1", !["pages/_document"] = "h1"]

HooksWith(clientFatal, serverFatal, errorLists) ==
  \/ \E err \in clientFatal : ClientFailed(err)
  \/ \E err \in serverFatal : ServerFailed(err)
  \/ ClientEmit(GateClientChunks)
  \/ ServerEmit(GateServerChunks)
  \/ \E errors \in errorLists :
       ClientDone([errors |-> errors, chunks |-> GateClientChunks])
  \/ \E errors \in errorLists :
       ServerDone([errors |-> errors, chunks |-> GateServerChunks])
  \/ MultiDone

\* The error lookup against the hooks: compilations differ in their errors.
LookupErrors == {"errLib", "errIndex", "errMain"}
LookupErrorLists == UNION {[1..k -> LookupErrors] : k \in 0..MaxErrors}
NextErrors == HooksWith(ClientFatal, ServerFatal, LookupErrorLists)

SpecErrors == Init /\ [][NextErrors]_vars

\* The gate against the hooks.
GateCompileErrors == {"errLib", "errIndex"}
GateErrorLists == UNION {[1..k -> GateCompileErrors] : k \in 0..MaxGateErrors}
GateRequests ==
  {r \in Requests : /\ r.method = "GET" /\ r.requestHeaders = NoHeader
                    /\ r.url # "/api/hello"
                    /\ (r.origin = NoOrigin
                        \/ r.url = "/_next/static/chunks/pages/about.js")}

NextGate ==
  \/ HooksWith(ClientFatal, {"serverFatal"}, GateErrorLists)
  \/ \E request \in GateRequests : Run(request)
  \/ \E error \in ClientFatal \cup OnDemandRejections : RunEnsureRejected(error)
  \/ RunEnsureResolved

SpecGate == Init /\ [][NextGate]_vars

\* The cross-origin handling: requests differ in method, headers and URL.
NextCors ==
  \/ \E err \in {"clientFatal"} : ClientFailed(err)
  \/ \E request \in Requests : Run(request)
  \/ \E error \in {"clientFatal", "pageNotFound"} : RunEnsureRejected(error)
  \/ RunEnsureResolved

SpecCors == Init /\ [][NextCors]_vars

\* The passes: compilations differ in their chunk hashes.
PassErrorLists == {<<>>}
PassClientChunks ==
  {c \in ClientChunkSets : c["pages/_middleware"] = NoHash /\ c["pages/index"] = NoHash}
PassServerChunks == ServerChunkSets

NextPass ==
  \/ \E chunks \in PassClientChunks : ClientEmit(chunks)
  \/ \E chunks \in PassServerChunks : ServerEmit(chunks)
  \/ \E err \in {"clientFatal"} : ClientFailed(err)
  \/ \E err \in {"serverFatal"} : ServerFailed(err)
  \/ \E errors \in PassErrorLists :
       /\ inflight.target = "client"
       /\ ClientDone([errors |-> errors, chunks |-> inflight.chunks])
  \/ \E errors \in PassErrorLists :
       /\ inflight.target = "server"
       /\ ServerDone([errors |-> errors, chunks |-> inflight.chunks])
  \/ MultiDone

SpecPass == Init /\ [][NextPass]_vars

\* The chunk names: client compilations differ in the chunks they hold, the
\* middleware and the non-page chunk main included.
NamesClientChunks ==
  {c \in [Keys -> Hashes \cup {NoHash}] :
     /\ c["pages/_document"] = NoHash
     /\ c["main"] # "h2" /\ c["pages/index"] # "h2"}

NextNames ==
  \/ \E chunks \in NamesClientChunks : ClientEmit(chunks)
  \/ \E err \in {"clientFatal"} : ClientFailed(err)
  \/ /\ inflight.target = "client"
     /\ ClientDone([errors |-> <<>>, chunks |-> inflight.chunks])
  \/ ServerEmit(GateServerChunks)
  \/ /\ inflight.target = "server"
     /\ ServerDone([errors |-> <<>>, chunks |-> inflight.chunks])
  \/ MultiDone

SpecNames == Init /\ [][NextNames]_vars

\* The document chunk: server compilations differ in the _document chunk.
DocServerChunks ==
  {c \in ServerChunkSets : c["pages/about"] = "h1" /\ c["pages/index"] = NoHash}

NextDoc ==
  \/ ClientEmit(GateClientChunks)
  \/ /\ inflight.target = "client"
     /\ ClientDone([errors |-> <<>>, chunks |-> inflight.chunks])
  \/ \E chunks \in DocServerChunks : ServerEmit(chunks)
  \/ \E err \in ServerFatal : ServerFailed(err)
  \/ /\ inflight.target = "server"
     /\ ServerDone([errors |-> <<>>, chunks |-> inflight.chunks])
  \/ MultiDone

SpecDoc == Init /\ [][NextDoc]_vars

\* The attribution: client compilations differ in their errors, which come
\* with a module or without, under a page, a non-page or an unnamed root.
AttrErrorLists == UNION {[1..k -> CompileErrors] : k \in 0..MaxErrors}

NextAttr ==
  \/ \E err \in {"clientFatal"} : ClientFailed(err)
  \/ ClientEmit(GateClientChunks)
  \/ \E errors \in AttrErrorLists :
       ClientDone([errors |-> errors, chunks |-> GateClientChunks])
  \/ ServerEmit(GateServerChunks)
  \/ \E errors \in {<<>>, <<"errUtil">>} :
       ServerDone([errors |-> errors, chunks |-> GateServerChunks])
  \/ MultiDone

SpecAttr == Init /\ [][NextAttr]_vars

\* The failures: either compilation may fail while pages change.
FailClientChunks == {c \in PassClientChunks : c["pages/about"] # NoHash}
FailServerChunks ==
  {c \in ServerChunkSets : /\ c["pages/about"] # NoHash /\ c["pages/index"] = NoHash
                           /\ c["pages/_document"] = "h1"}

NextFail ==
  \/ \E chunks \in FailClientChunks : ClientEmit(chunks)
  \/ \E chunks \in FailServerChunks : ServerEmit(chunks)
  \/ \E err \in ClientFatal : ClientFailed(err)
  \/ \E err \in ServerFatal : ServerFailed(err)
  \/ /\ inflight.target = "client"
     /\ ClientDone([errors |-> <<>>, chunks |-> inflight.chunks])
  \/ /\ inflight.target = "server"
     /\ ServerDone([errors |-> <<>>, chunks |-> inflight.chunks])
  \/ MultiDone

SpecFail == Init /\ [][NextFail]_vars

\* The gate and direct calls of ensurePage, with and without a fatal error.
NextEnsure ==
  \/ \E err \in {"clientFatal"} : ClientFailed(err)
  \/ \E err \in {"serverFatal"} : ServerFailed(err)
  \/ \E request \in GateRequests : Run(request)
  \/ \E error \in {"clientFatal", "pageNotFound"} : RunEnsureRejected(error)
  \/ RunEnsureResolved
  \/ \E page \in DirectPages, clientOnly \in BOOLEAN : EnsurePage(page, clientOnly)

SpecEnsure == Init /\ [][NextEnsure]_vars

\* The ancestry walk over issuer graphs, malformed ones included.
NextWalk ==
  \/ \E graph \in IssuerGraphs, module \in WalkModules :
       FindEntryModuleCall(graph, module)
  \/ FindEntryModuleStep

SpecWalk == Init /\ [][NextWalk]_vars

\* The fallback compilation: calls of buildFallbackError, overlapping or not.
NextFallback ==
  \/ \E c \in FallbackCallIds : BuildFallbackError(c)
  \/ \E c \in FallbackCallIds : FallbackConfigResolved(c)
  \/ \E c \in FallbackCallIds : FallbackBooted(c)

SpecFallback == Init /\ [][NextFallback]_vars

\* The entry maps: registries, file systems and runtimes differ.
InitEntries == \E concurrentFeatures \in BOOLEAN : Constructed(concurrentFeatures)

NextEntries ==
  \/ \E pageKey \in EntryKeys : AddEntry(pageKey)
  \/ \E pageKey \in EntryKeys : FlagDispose(pageKey)
  \/ \E page \in EntryPages : RemoveSource(page)
  \/ StartPass
  \/ ConfigEntry

SpecEntries == InitEntries /\ [][NextEntries]_vars

\* ================================================================ claims
LookupPages == {"/about", "/", "/my page", "\\about"}
Attributed(stats, page) ==
  IF stats.isNull THEN <<>> ELSE erroredPages(stats.errors, normalizePathSep(page))
NoFatal == clientError = NULL /\ serverError = NULL
CacheDisabled == "no-cache, no-store, max-age=0, must-revalidate"

\* C1: with no fatal error recorded, getCompilationErrors(page) returns the
\* errors attributed to the page whenever the page has attributed errors in
\* the client or in the server compilation, falls back to the raw error list
\* of a target that has errors only when the page has none, and returns the
\* empty list when neither target has errors.
C1_AttributedBeforeFallback ==
  NoFatal =>
    \A page \in LookupPages :
      LET attrClient == Attributed(clientStats, page)
          attrServer == Attributed(serverStats, page)
          got == getCompilationErrors(page)
      IN /\ (attrClient # <<>> \/ attrServer # <<>>)
              => got \in {attrClient, attrServer, attrClient \o attrServer} \ {<<>>}
         /\ (attrClient = <<>> /\ attrServer = <<>>)
              => IF hasErrors(clientStats) \/ hasErrors(serverStats)
                 THEN got \in {st.errors : st \in {t \in {clientStats, serverStats} : hasErrors(t)}}
                 ELSE got = <<>>

\* C2 as stated: while a target's fatal error is recorded (from its failed
\* hook to its next done hook), getCompilationErrors returns exactly the list
\* holding that target's fatal error, for every page.
C2_EachFatalSurfaces ==
  \A page \in LookupPages :
    /\ clientError # NULL => getCompilationErrors(page) = <<clientError>>
    /\ serverError # NULL => getCompilationErrors(page) = <<serverError>>

\* C2 (amended): while a fatal error is recorded, getCompilationErrors
\* returns for every page exactly the one-element list holding a fatal error,
\* the client's when the client has one and otherwise the server's, whatever
\* the stats hold; the done hook of a target ends the surfacing of that
\* target's fatal error.
C2_FatalSurfacesClientFirst ==
  [][\A page \in LookupPages :
       /\ clientError' # NULL => getCompilationErrors(page)' = <<clientError'>>
       /\ (clientError' = NULL /\ serverError' # NULL)
            => getCompilationErrors(page)' = <<serverError'>>
       /\ (clientError # NULL /\ clientError' = NULL)
            => clientError \notin Range(getCompilationErrors(page)')
       /\ (serverError # NULL /\ serverError' = NULL)
            => serverError \notin Range(getCompilationErrors(page)')]_vars

C2_Witness ==
  /\ serverError # NULL /\ clientError = NULL /\ hasErrors(clientStats)
  /\ getCompilationErrors("/about") = <<serverError>>

\* the step in which the gate, ensurePage having resolved, consults
\* getCompilationErrors
ResolvedStep ==
  /\ run.pc = "awaitEnsure" /\ run'.pc = "returned"
  /\ run'.ensure.state = "resolved"

C4_RejectionRendered ==
  (run.ensure.state = "rejected" /\ run.pc # "awaitEnsure") =>
    /\ run.pc = "returned" /\ run.finished /\ run.thrown = NULL
    /\ res.ended /\ res.cacheControl = CacheDisabled
    /\ IF isError(run.ensure.error) /\ ErrorCode(run.ensure.error) = "ENOENT"
       THEN res.statusCode = 404 /\ res.body = "404 - Not Found"
       ELSE res.statusCode = 500 /\ res.body = "500 - Internal Error"

C4_Witness ==
  /\ run.pc = "returned" /\ run.ensure.state = "rejected"
  /\ run.ensure.error = "pageNotFound"
  /\ res.statusCode = 404 /\ res.cacheControl = CacheDisabled /\ run.finished

\* C5: when ensurePage resolves and getCompilationErrors(page) is non-empty
\* the gate answers with an error response classified by the first error
\* (404 for ENOENT, else 500, cache disabled) and returns finished=true;
\* when the list is empty it returns with finished unset, the response
\* untouched, after the single ensurePage wait.
C5_ScriptErrorsNotServed ==
  [][ResolvedStep =>
       LET errors == getCompilationErrors(run.page) IN
       IF errors # <<>>
       THEN /\ run'.finished /\ res'.ended /\ res'.cacheControl = CacheDisabled
            /\ IF ErrorCode(errors[1]) = "ENOENT"
               THEN res'.statusCode = 404 /\ res'.body = "404 - Not Found"
               ELSE res'.statusCode = 500 /\ res'.body = "500 - Internal Error"
       ELSE /\ ~run'.finished /\ res' = res /\ ~res'.ended
            /\ run'.ensureCalls = 1]_vars

C5_Witness ==
  /\ run.pc = "returned" /\ run.ensure.state = "resolved"
  /\ Len(run.errors) = 1 /\ run.errors[1] = "errIndex"
  /\ run.finished /\ res.statusCode = 404

IsMalformed(request) ==
  /\ matchNextPageBundleRequest(request.url) # <<>>
  /\ decodeURIComponent(matchNextPageBundleRequest(request.url)[1]) = Malformed
IsPreflight(request) ==
  request.method = "OPTIONS" /\ request.origin # NoOrigin /\ ~API_ROUTE(request.url)

\* C6 as stated: a page-bundle request whose path does not decode always
\* gets a 500 response written by the gate, and run() does not reject.
C6_DecodeErrorRendered ==
  (run.pc # "idle" /\ IsMalformed(req) /\ ~IsPreflight(req)) =>
    /\ run.pc = "returned"
    /\ res.ended /\ res.statusCode = 500

\* C6 (amended): a page-bundle request whose path does not decode, unless it
\* is answered as a preflight, makes run() reject with a DecodeError: the
\* gate writes no response (status, body and Cache-Control untouched, the
\* response not ended) and ensurePage is not called.
C6_DecodeErrorEscapes ==
  (run.pc # "idle" /\ IsMalformed(req) /\ ~IsPreflight(req)) =>
    /\ run.pc = "rejected" /\ run.thrown = "DecodeError" /\ ~run.finished
    /\ ~res.ended /\ res.statusCode = 200 /\ res.body = NULL
    /\ res.cacheControl = NoHeader
    /\ run.ensureCalls = 0

C6_Witness ==
  /\ run.pc = "rejected" /\ run.thrown = "DecodeError"
  /\ req.url = "/_next/static/chunks/pages/%E0%A4%A.js" /\ req.method = "GET"
  /\ ~res.ended

\* C7: an OPTIONS request with an Origin header whose URL is not an API
\* route is answered with status 200, the CORS headers (Allow-Origin echoing
\* the Origin, Allow-Methods, Allow-Headers when requested) and an empty
\* body, and run() returns without page resolution: no bundle matching, no
\* ensurePage call.
C7_PreflightShortCircuits ==
  (run.pc # "idle" /\ req.method = "OPTIONS" /\ req.origin # NoOrigin
   /\ ~API_ROUTE(req.url)) =>
    /\ res.statusCode = 200 /\ res.ended /\ res.body = ""
    /\ res.allowOrigin = req.origin
    /\ res.allowMethods = "OPTIONS, GET"
    /\ res.allowHeaders = req.requestHeaders
    /\ res.cacheControl = NoHeader
    /\ run.pc = "returned" /\ run.thrown = NULL
    /\ ~run.gateReached /\ run.page = NULL
    /\ run.ensureCalls = 0 /\ run.ensure.state = "none"

C7_Witness ==
  /\ run.pc = "returned" /\ req.method = "OPTIONS"
  /\ req.origin = "http://zone.example" /\ req.requestHeaders = "x-custom"
  /\ req.url = "/_next/static/chunks/pages/about.js"
  /\ res.ended /\ res.statusCode = 200 /\ res.allowHeaders = "x-custom"
  /\ run.ensureCalls = 0

\* C8: the cross-origin headers are on the response, from before any page
\* resolution, exactly when the request has an Origin header and its URL is
\* not an API route; a request without Origin and every API-route request
\* (OPTIONS included) gets no Access-Control header and no preflight
\* short-circuit.
C8_CorsExactlyCrossOrigin ==
  run.pc # "idle" =>
    LET crossOrigin == req.origin # NoOrigin /\ ~API_ROUTE(req.url) IN
    /\ (res.allowOrigin # NoHeader) <=> crossOrigin
    /\ (res.allowMethods # NoHeader) <=> crossOrigin
    /\ crossOrigin => res.allowOrigin = req.origin
    /\ ~crossOrigin =>
         /\ res.allowHeaders = NoHeader
         /\ run.gateReached
         /\ res.ended => res.cacheControl = CacheDisabled

C8_Witness ==
  /\ run.pc = "awaitEnsure" /\ req.method = "GET"
  /\ req.origin = "http://zone.example"
  /\ res.allowOrigin = "http://zone.example" /\ res.allowMethods = "OPTIONS, GET"
  /\ ~res.ended

ServerOnlyEvents == SelectSeq(sent, LAMBDA e : e.event = "serverOnlyChanges")
ReloadEvents == SelectSeq(sent, LAMBDA e : e.action = "reloadPage")
RoutesOf(keys) == {getRouteFromEntrypoint(k) : k \in keys}

\* C9: at the multi-compiler done hook of every pass, serverOnlyChanges is
\* the set of pages whose server hash changed in the pass minus the pages
\* whose client hash changed: a subset of the former, disjoint from the
\* latter.
C9_ServerOnlyIsDifference ==
  passLog.complete =>
    /\ passLog.serverOnly = passLog.atDoneServer \ passLog.atDoneClient
    /\ passLog.serverOnly = passLog.serverChanged \ passLog.clientChanged
    /\ passLog.serverOnly \subseteq passLog.serverChanged
    /\ passLog.serverOnly \cap passLog.clientChanged = {}

C9_Witness ==
  /\ passLog.complete
  /\ passLog.clientChanged = {"pages/about"}
  /\ passLog.serverChanged = {"pages/about", "pages/index"}
  /\ passLog.serverOnly = {"pages/index"}

ServerDoneStep ==
  /\ inflight.target = "server" /\ inflight'.target = "none"
  /\ "server" \in doneCompilers'
\* the events a step publishes
Published == SubSeq(sent', Len(OpenSent) + 1, Len(sent'))
ReloadsPublished ==
  Len(SelectSeq(Published, LAMBDA e : e.action = "reloadPage"))

\* C11: the server done hook publishes reloadPage exactly when the document
\* chunk is present and its hash differs from the document chunk hash
\* recorded from the earlier server passes; it publishes none when the hash
\* is the same, when no hash was recorded yet (the hash is only recorded) or
\* when the chunk is missing (nothing is recorded); after the hook the
\* recorded hash is the hash of the chunk, so the same hash does not reload
\* again; no other hook publishes reloadPage or touches the recorded hash.
C11_ReloadOnDocumentChange ==
  [][/\ ServerDoneStep =>
          LET doc == inflight.chunks["pages/_document"] IN
          /\ ReloadsPublished =
               (IF doc # NoHash /\ passLog.lastDoc # NoHash /\ doc # passLog.lastDoc
                THEN 1 ELSE 0)
          /\ serverPrevDocumentHash = passLog.lastDoc
          /\ serverPrevDocumentHash' = (IF doc # NoHash THEN doc ELSE serverPrevDocumentHash)
          /\ (doc # NoHash /\ doc = serverPrevDocumentHash) => ReloadsPublished = 0
     /\ ~ServerDoneStep =>
          /\ ReloadsPublished = 0
          /\ serverPrevDocumentHash' = serverPrevDocumentHash]_vars

C11_Witness ==
  /\ ~passLog.complete /\ "server" \in doneCompilers
  /\ serverPrevDocumentHash = "h2"
  /\ Len(ReloadEvents) = 1
  /\ Len(sent) = 1

\* the step that is the client compilation's done hook
ClientDoneStep ==
  /\ inflight.target = "client" /\ inflight'.target = "none"
  /\ "client" \in doneCompilers'
\* the route-shaped chunk names of a compilation
RouteKeys(chunks) ==
  {k \in Keys : chunks[k] # NoHash /\ getRouteFromEntrypoint(k) # NoRoute}
PublishedOf(action) == SelectSeq(Published, LAMBDA e : e.action = action)
PayloadsOf(action) == {e.data[1] : e \in Range(PublishedOf(action))}

\* C12: the client done hook of a pass with route-shaped chunk names S2,
\* S1 being those of the previous successful client pass, publishes
\* addedPage once for each route of S2 \ S1 and removedPage once for each
\* route of S1 \ S2 and for nothing else: a route of both gets neither, a
\* chunk that is no route (main) gets neither, and no route is both added and
\* removed. The hook records S2; no other hook publishes these events or
\* changes the recorded names.
C12_AddedRemovedAreSetDifferences ==
  [][/\ ClientDoneStep =>
          LET S2 == RouteKeys(inflight.chunks)
              S1 == prevChunkNames.names
              added == PayloadsOf("addedPage")
              removed == PayloadsOf("removedPage")
          IN /\ prevChunkNames' = [defined |-> TRUE, names |-> S2]
             /\ prevChunkNames.defined =>
                  /\ added = RoutesOf(S2 \ S1)
                  /\ Len(PublishedOf("addedPage")) = Cardinality(S2 \ S1)
                  /\ removed = RoutesOf(S1 \ S2)
                  /\ Len(PublishedOf("removedPage")) = Cardinality(S1 \ S2)
                  /\ added \cap removed = {}
                  /\ RoutesOf(S1 \cap S2) \cap (added \cup removed) = {}
                  /\ NoRoute \notin added \cup removed
             /\ ~prevChunkNames.defined => added \cup removed = {}
     /\ ~ClientDoneStep =>
          /\ PayloadsOf("addedPage") \cup PayloadsOf("removedPage") = {}
          /\ prevChunkNames' = prevChunkNames]_vars

C12_Witness ==
  /\ prevChunkNames = [defined |-> TRUE, names |-> {"pages/index", "pages/_middleware"}]
  /\ sent = <<ActionEvent("addedPage", <<"/">>), ActionEvent("removedPage", <<"/about">>)>>
  /\ inflight.target = "none" /\ "client" \in doneCompilers

\* the step that is the client emit hook
ClientEmitStep == inflight.target = "none" /\ inflight'.target = "client"
\* the hash snapshot of a compilation: its route-shaped chunks
Snapshot(chunks) ==
  [k \in Keys |-> IF getRouteFromEntrypoint(k) # NoRoute THEN chunks[k] ELSE NoHash]
\* the snapshot of the previous client pass when that pass was successful:
\* the names its done hook recorded, with the hashes its emit hook recorded
PrevClientSnapshot ==
  [k \in Keys |-> IF k \in prevChunkNames.names THEN prevClientPageHashes[k] ELSE NoHash]
\* the pages present in both snapshots with different hashes
InBothDifferent(S1, S2) ==
  {k \in Keys : S1[k] # NoHash /\ S2[k] # NoHash /\ S1[k] # S2[k]}

\* C13: the pages a compilation classifies as changed are exactly the pages
\* present in the hash snapshot of the target's previous pass and in the new
\* snapshot with a different hash; a page present only in the new snapshot,
\* one removed in an earlier pass and now re-added included, is not
\* classified as changed, nor is a page whose hash is the same. Stated for
\* the client target, a successful client pass being the previous one.
C13_ChangedIffInBothSnapshots ==
  [][(ClientEmitStep /\ "client" \in doneCompilers) =>
       LET both == InBothDifferent(PrevClientSnapshot, Snapshot(inflight'.chunks))
       IN /\ changedClientPages' \ changedClientPages \subseteq both
          /\ both \subseteq changedClientPages']_vars

MiddlewareEvents == SelectSeq(sent, LAMBDA e : e.event = "middlewareChanges")

C15_FallbackBuiltOnce ==
  /\ fallbackCompilers <= 1
  /\ Cardinality({c \in FallbackCallIds :
                    fallbackCalls[c] \in {"awaitBoot", "built"}}) <= 1

TargetsOf(pageKey) == {t \in Targets : pageKey \in entrypoints[t]}

\* C16: in every pass each registry entry is in the entry map of exactly one
\* compilation target: a client-prefixed key in the client's only, a
\* server-prefixed key in the map of one of the server and the server-web
\* compilation, whatever the kind of page and the runtime.
C16_OneTargetPerEntry ==
  entryPass.complete =>
    \A pageKey \in Registered :
      /\ Cardinality(TargetsOf(pageKey)) = 1
      /\ IsClientKey(pageKey) <=> TargetsOf(pageKey) = {"client"}

\* the step that is a compilation's config.entry
ConfigEntryStep == entryPass.due # <<>> /\ entryPass'.due = Tail(entryPass.due)
\* the entry's source is gone or the entry is flagged for disposal
Stale(pageKey) ==
  entries[pageKey].dispose \/ PageOf(pageKey) \in missingSources
\* the entries some compilation reads: all but the client-prefixed API routes
\* and the server-prefixed middleware
ReadBy(target, pageKey) ==
  \/ /\ target = "client" /\ pageKey \in ClientKeys
     /\ PageOf(pageKey) # "/api/hello"
  \/ /\ target \in {"server", "server-web"} /\ pageKey \in ServerKeys
     /\ PageOf(pageKey) # "/_middleware"

ClientFailedStep ==
  /\ clientError' # NULL
  /\ \/ clientError' # clientError \/ clientStats' # clientStats
     \/ inflight.target = "client" /\ inflight'.target = "none"
ServerFailedStep ==
  /\ serverError' # NULL
  /\ \/ serverError' # serverError \/ serverStats' # serverStats
     \/ inflight.target = "server" /\ inflight'.target = "none"

\* C18: the failed hook of a target records that target's error, clears that
\* target's stats and changes nothing else: the sibling's error and stats,
\* both hash snapshots, both pending changed-page sets, the recorded document
\* hash and chunk names stay, nothing is published; and the sibling's done
\* hook, while the failure is recorded, still records the sibling's result
\* and leaves the failure recorded.
C18_FailureLeavesSibling ==
  [][/\ ClientFailedStep =>
          /\ clientStats' = NoStats
          /\ UNCHANGED <<serverError, serverStats, prevServerPageHashes,
                         changedServerPages, prevClientPageHashes,
                         changedClientPages, serverPrevDocumentHash, prevChunkNames>>
          /\ Published = <<>>
     /\ ServerFailedStep =>
          /\ serverStats' = NoStats
          /\ UNCHANGED <<clientError, clientStats, prevServerPageHashes,
                         changedServerPages, prevClientPageHashes,
                         changedClientPages, serverPrevDocumentHash, prevChunkNames>>
          /\ Published = <<>>
     /\ (ServerDoneStep /\ clientError # NULL) =>
          /\ serverError' = NULL /\ ~serverStats'.isNull
          /\ clientError' = clientError /\ clientStats' = clientStats
     /\ (ClientDoneStep /\ serverError # NULL) =>
          /\ clientError' = NULL /\ ~clientStats'.isNull
          /\ serverError' = serverError /\ serverStats' = serverStats]_vars

C18_Witness ==
  /\ clientError = "clientFatal" /\ clientStats = NoStats
  /\ serverError = NULL /\ ~serverStats.isNull /\ "server" \in doneCompilers
  /\ changedServerPages = {"pages/about"}
  /\ ~passLog.complete

\* the modules on the issuer chain of a module, itself included
RECURSIVE ChainFrom(_, _)
ChainFrom(S, n) ==
  IF n = 0 THEN S
  ELSE ChainFrom(S \cup {Issuer(m) : m \in {x \in S : Issuer(x) # NULL}}, n - 1)
RootOf(module) ==
  CHOOSE r \in ChainFrom({module}, Cardinality(Modules)) : Issuer(r) = NULL
\* the route an error belongs to: that of the name of its module's root
RouteOfError(error) ==
  IF ErrorModule(error) = NULL THEN NoRoute
  ELSE IF ModuleName(RootOf(ErrorModule(error))) = "" THEN NoRoute
  ELSE getRouteFromEntrypoint(ModuleName(RootOf(ErrorModule(error))))
AttrRoutes == {"/about", "/", "/_middleware", "/_document", "/_error", "/my page"}
StatsRecorded == {st \in {clientStats, serverStats} : ~st.isNull}

\* C19: the per-page list of a route holds, in their order, exactly the
\* errors whose module's issuer chain ends in a root named after that route;
\* an error without module, with an unnamed root or with a root that is no
\* route is in no page's list; the raw list holds every error, and is what a
\* page without attributed errors gets.
C19_ErrorsAttributedToRootRoute ==
  \A st \in StatsRecorded :
    /\ \A page \in AttrRoutes :
         erroredPages(st.errors, page) =
           SelectSeq(st.errors, LAMBDA e : RouteOfError(e) = page)
    /\ \A i \in 1..Len(st.errors) :
         LET pagesOf == {page \in AttrRoutes \cup {NoRoute} :
                           st.errors[i] \in Range(erroredPages(st.errors, page))}
         IN IF RouteOfError(st.errors[i]) = NoRoute
            THEN pagesOf = {}
            ELSE pagesOf = {RouteOfError(st.errors[i])}
    /\ (NoFatal /\ st = clientStats /\ hasErrors(st)) =>
         \A page \in AttrRoutes :
           erroredPages(st.errors, page) = <<>> => getCompilationErrors(page) = st.errors

C19_Witness ==
  /\ ~clientStats.isNull /\ clientStats.errors = <<"errAnon", "errUtil">>
  /\ erroredPages(clientStats.errors, "/about") = <<"errUtil">>
  /\ NoFatal /\ getCompilationErrors("/") = <<"errAnon", "errUtil">>

\* C20: the walk from a module to its root ends for every issuer graph, one
\* whose issuer links form a cycle included: it ends by returning a module,
\* never by running until the call stack is exhausted.
C20_WalkTerminates == walk.pc # "RangeError"

\* the pages the gate and ensurePage refuse to build
ProtectedPages == {"/_document", "/_app"}
\* the steps that are a call of ensurePage from outside run
DirectEnsureStep == ensured' # ensured

\* C21: the gate calls ensurePage for the page of a bundle request exactly
\* when the page is not protected, '/_error' being allowed; for a protected
\* page it returns with the response not written and finished unset; and a
\* direct call of ensurePage for a protected page returns, neither rejected
\* nor handed over, with the registry of entries unchanged, fatal error
\* recorded or not.
C21_ProtectedPagesNotEnsured ==
  /\ [](/\ run.page # NULL =>
             (run.ensureCalls = 1 <=> run.page \notin ProtectedPages)
        /\ run.page = NULL => run.ensureCalls = 0
        /\ run.page \in ProtectedPages =>
             /\ run.pc = "returned" /\ ~run.finished
             /\ ~res.ended /\ res.body = NULL /\ run.rendered = NULL)
  /\ [][(DirectEnsureStep /\ ensured'.page \in ProtectedPages) =>
          /\ ensured'.outcome = [state |-> "resolved", error |-> NULL]
          /\ entries' = entries]_vars

C21_Witness ==
  /\ run.page = "/_document" /\ run.pc = "returned"
  /\ serverError = "serverFatal" /\ clientError = "clientFatal"
  /\ ensured.page = "/_app" /\ ~ensured.clientOnly
  /\ ensured.outcome.state = "resolved"
  /\ entries["client/_error"].status = "ADDED"

\* C22: run() resolves with finished = true exactly when the response was
\* ended during the call, by an error response or by a preflight reply.
C22_FinishedIffEnded ==
  run.pc = "returned" => (run.finished <=> res.ended)

\* C23: for the client and for the server target, the recorded fatal error
\* and the recorded stats are never both set: a failed hook leaves the error
\* set and the stats null, a done hook leaves the error null and the stats
\* set.
C23_ErrorXorStats ==
  /\ [](/\ ~(clientError # NULL /\ ~clientStats.isNull)
        /\ ~(serverError # NULL /\ ~serverStats.isNull))
  /\ [][/\ ClientFailedStep => (clientError' # NULL /\ clientStats'.isNull)
        /\ ServerFailedStep => (serverError' # NULL /\ serverStats'.isNull)
        /\ ClientDoneStep => (clientError' = NULL /\ ~clientStats'.isNull)
        /\ ServerDoneStep => (serverError' = NULL /\ ~serverStats'.isNull)]_vars

C23_Witness ==
  /\ serverError = "serverFatal" /\ serverStats.isNull
  /\ serverPrevDocumentHash = "h1"
  /\ clientError = NULL /\ ~clientStats.isNull

\* C24: right after every multi-compiler done hook both pending sets are
\* empty and what the hook classified was exactly the hash changes detected
\* since the hook before it; until the next hook the pending sets hold the
\* changes detected since, and nothing of an earlier pass.
C24_PendingSetsArePassLocal ==
  /\ passLog.complete =>
       /\ changedClientPages = {} /\ changedServerPages = {}
       /\ passLog.atDoneClient = passLog.clientChanged
       /\ passLog.atDoneServer = passLog.serverChanged
  /\ ~passLog.complete =>
       /\ changedClientPages = passLog.clientChanged
       /\ changedServerPages = passLog.serverChanged

C24_Witness ==
  /\ passLog.complete
  /\ passLog.atDoneClient = {"pages/about"}
  /\ passLog.atDoneServer = {"pages/about"}
  /\ changedClientPages = {} /\ changedServerPages = {}
  /\ sent = <<>>

\* C25: when every compilation of a pass has built its entry map, an entry
\* whose status is Building has been injected into the entry map of some
\* target: no entry is left marked Building that no target builds.
C25_BuildingOnlyIfInjected ==
  entryPass.complete =>
    \A pageKey \in Registered :
      entries[pageKey].status = "BUILDING" => TargetsOf(pageKey) # {}

====
